---- MODULE Spec2Model ----
(***************************************************************************)
(* Model of subdomain_hunter.py: the domain cleaning of main(), and one    *)
(* scan (SubdomainHunter.run_all and its four phases) as main() runs it.   *)
(* Strings are sequences of one-character strings, so that lower(),        *)
(* strip(), endswith(), split() and the two regular expressions are        *)
(* computed character by character.                                        *)
(***************************************************************************)
EXTENDS Integers, Sequences, FiniteSets, TLC

VARIABLES
    pc,            \* position of the main thread
    argDomain,     \* args.domain, the raw command-line value
    domain,        \* the cleaned domain (main) / self.domain
    opts,          \* args: the --no-* flags and the wordlist path
    subdomains,    \* self.subdomains, the shared set of names
    statistics,    \* results['statistics'], a mapping phase -> count
    results,       \* what run_all returned (None before)
    found,         \* the running phase's local set `found`
    ctData,        \* search_ct_logs: `data`, the records of the response
    ctPos,         \* search_ct_logs: the index of the next record of `data`
    response,      \* web_search: the response of the source being handled
    webLeft,       \* web_search: the sources not yet queried
    nsLeft,        \* zone_transfer: the nameservers not yet tried
    words,         \* dns_bruteforce: the loaded wordlist
    futures,       \* dns_bruteforce: one future per submitted word
    checked,       \* dns_bruteforce: the progress counter
    exc,           \* the exception unwinding the main thread (None if none)
    exported,      \* whether export_results was invoked
    exitStatus,    \* the process's exit status (None while running)
    hist           \* observation only: what happened so far

vars == <<pc, argDomain, domain, opts, subdomains, statistics, results, found,
          ctData, ctPos, response, webLeft, nsLeft, words, futures, checked, exc, exported,
          exitStatus, hist>>

None == "None"

-----------------------------------------------------------------------------
(* Characters and strings *)

UpperChars == <<"A","B","C","D","E","F","G","H","I","J","K","L","M",
                "N","O","P","Q","R","S","T","U","V","W","X","Y","Z">>
LowerChars == <<"a","b","c","d","e","f","g","h","i","j","k","l","m",
                "n","o","p","q","r","s","t","u","v","w","x","y","z">>
DigitChars == {"0","1","2","3","4","5","6","7","8","9"}
SpaceChars == {" ", "\t", "\n", "\r"}

Range(s) == {s[i] : i \in 1..Len(s)}

IsUpper(c) == c \in Range(UpperChars)
IsLowerAlpha(c) == c \in Range(LowerChars)
IsLowerAlnum(c) == IsLowerAlpha(c) \/ c \in DigitChars
IsAlnum(c) == IsLowerAlnum(c) \/ IsUpper(c)

\* str.lower() on one character
LowerChar(c) ==
    IF IsUpper(c)
    THEN LowerChars[CHOOSE i \in 1..Len(UpperChars) : UpperChars[i] = c]
    ELSE c

\* str.lower()
Lower(s) == [i \in 1..Len(s) |-> LowerChar(s[i])]

\* str.lstrip(chars) / str.rstrip(chars) / str.strip()
RECURSIVE LStripSet(_, _)
LStripSet(s, cs) ==
    IF s # <<>> /\ Head(s) \in cs THEN LStripSet(Tail(s), cs) ELSE s

RECURSIVE RStripSet(_, _)
RStripSet(s, cs) ==
    IF s # <<>> /\ s[Len(s)] \in cs
    THEN RStripSet(SubSeq(s, 1, Len(s) - 1), cs)
    ELSE s

Strip(s) == RStripSet(LStripSet(s, SpaceChars), SpaceChars)

\* str.startswith / str.endswith
StartsWith(s, p) == Len(p) <= Len(s) /\ SubSeq(s, 1, Len(p)) = p
EndsWith(s, p) ==
    Len(p) <= Len(s) /\ SubSeq(s, Len(s) - Len(p) + 1, Len(s)) = p

\* `c in s` for a character c
HasChar(s, c) == c \in Range(s)

\* the index of the first character of s that is in cs, Len(s)+1 if none
FirstIn(s, cs) ==
    IF \E i \in 1..Len(s) : s[i] \in cs
    THEN CHOOSE i \in 1..Len(s) :
            s[i] \in cs /\ \A j \in 1..(i - 1) : s[j] \notin cs
    ELSE Len(s) + 1

\* str.split(sep) for a one-character separator: a sequence of strings
RECURSIVE Split(_, _)
Split(s, sep) ==
    LET k == FirstIn(s, {sep})
    IN  IF k > Len(s) THEN <<s>>
        ELSE <<SubSeq(s, 1, k - 1)>> \o Split(SubSeq(s, k + 1, Len(s)), sep)

\* the characters of s that are not in cs, in order
RECURSIVE Without(_, _)
Without(s, cs) ==
    IF s = <<>> THEN <<>>
    ELSE (IF Head(s) \in cs THEN <<>> ELSE <<Head(s)>>) \o Without(Tail(s), cs)

-----------------------------------------------------------------------------
(* main(): cleaning and validating the domain *)

HTTP_PREFIX == <<"h","t","t","p",":","/","/">>

\* urlparse(url).netloc for a url that starts with "http://": urlsplit drops
\* tab, CR and LF, and the netloc runs from after "//" to the first of / ? #
UrlNetloc(url) ==
    LET u    == Without(url, {"\t", "\r", "\n"})
        rest == SubSeq(u, Len(HTTP_PREFIX) + 1, Len(u))
    IN  SubSeq(rest, 1, FirstIn(rest, {"/", "?", "#"}) - 1)

\* domain = urlparse(f"http://{args.domain}").netloc or args.domain
\* domain = domain.lower().strip()
CleanDomain(raw) ==
    LET netloc == UrlNetloc(HTTP_PREFIX \o raw)
    IN  Strip(Lower(IF netloc # <<>> THEN netloc ELSE raw))

\* [a-z0-9]+([\-\.]{1}[a-z0-9]+)*  matches the whole of s
IsLabelRun(s) ==
    /\ s # <<>>
    /\ IsLowerAlnum(s[1])
    /\ IsLowerAlnum(s[Len(s)])
    /\ \A i \in 1..Len(s) : IsLowerAlnum(s[i]) \/ s[i] \in {"-", "."}
    /\ \A i \in 1..(Len(s) - 1) :
          s[i] \in {"-", "."} => IsLowerAlnum(s[i + 1])

\* re.match(r'^[a-z0-9]+([\-\.]{1}[a-z0-9]+)*\.[a-z]{2,}$', s)
\* ($ also matches before one final newline)
DomainRegexMatches(s) ==
    LET t == IF s # <<>> /\ s[Len(s)] = "\n"
             THEN SubSeq(s, 1, Len(s) - 1) ELSE s
    IN  \E k \in 1..Len(t) :
           /\ t[k] = "."
           /\ Len(t) - k >= 2
           /\ \A i \in (k + 1)..Len(t) : IsLowerAlpha(t[i])
           /\ IsLabelRun(SubSeq(t, 1, k - 1))

-----------------------------------------------------------------------------
(* web_search's pattern, r'([a-zA-Z0-9][-a-zA-Z0-9]*\.)+' + re.escape(domain) *)

\* [a-zA-Z0-9][-a-zA-Z0-9]*\. tried at position p of body: the position of
\* the dot that ends the label, 0 if there is no match at p
LabelDotEnd(body, p) ==
    IF p > Len(body) \/ ~IsAlnum(body[p]) THEN 0
    ELSE LET stop == CHOOSE j \in (p + 1)..(Len(body) + 1) :
                        /\ j = Len(body) + 1
                             \/ ~(IsAlnum(body[j]) \/ body[j] = "-")
                        /\ \A i \in (p + 1)..(j - 1) :
                              IsAlnum(body[i]) \/ body[i] = "-"
         IN  IF stop <= Len(body) /\ body[stop] = "." THEN stop ELSE 0

\* the positions after each of the successive labels that start at p
RECURSIVE LabelStarts(_, _)
LabelStarts(body, p) ==
    LET e == LabelDotEnd(body, p)
    IN  IF e = 0 THEN <<>> ELSE <<e + 1>> \o LabelStarts(body, e + 1)

\* the literal dom occurs in body at position p
LiteralAt(body, p, dom) ==
    /\ p + Len(dom) - 1 <= Len(body)
    /\ SubSeq(body, p, p + Len(dom) - 1) = dom

\* the pattern tried at position i: the group repeats greedily, so the match
\* is the one with the most labels; group 1 holds the last repetition
MatchAt(body, i, dom) ==
    LET ps == <<i>> \o LabelStarts(body, i)
        ks == {k \in 2..Len(ps) : LiteralAt(body, ps[k], dom)}
    IN  IF ks = {}
        THEN [ok |-> FALSE, group |-> <<>>, whole |-> <<>>, end |-> 0]
        ELSE LET k == CHOOSE x \in ks : \A y \in ks : y <= x
             IN  [ok    |-> TRUE,
                  group |-> SubSeq(body, ps[k - 1], ps[k] - 1),
                  whole |-> SubSeq(body, i, ps[k] + Len(dom) - 1),
                  end   |-> ps[k] + Len(dom) - 1]

\* re.findall(pattern, body) from position i on: the pattern has one group,
\* so findall returns the text of group 1 of each non-overlapping match
RECURSIVE FindAllFrom(_, _, _)
FindAllFrom(body, i, dom) ==
    IF i > Len(body) THEN <<>>
    ELSE LET m == MatchAt(body, i, dom)
         IN  IF m.ok THEN <<m.group>> \o FindAllFrom(body, m.end + 1, dom)
             ELSE FindAllFrom(body, i + 1, dom)

FindAll(body, dom) == FindAllFrom(body, 1, dom)

-----------------------------------------------------------------------------
(* sorted(list(self.subdomains)): strings compare by code point *)

Ascii == <<"\t", "\n", "\r", " ", "#", "*", "-", ".", "/",
           "0","1","2","3","4","5","6","7","8","9", ":", "?", "@">>
         \o UpperChars \o LowerChars

Ord(c) == CHOOSE i \in 1..Len(Ascii) : Ascii[i] = c

\* a < b for strings
StrLess(a, b) ==
    \E k \in 1..(Len(b)) :
       /\ \A i \in 1..(k - 1) : i <= Len(a) /\ a[i] = b[i]
       /\ k - 1 <= Len(a)
       /\ (k > Len(a) \/ Ord(a[k]) < Ord(b[k]))

\* sorted(..., reverse=True)
RECURSIVE SortedDescending(_)
SortedDescending(S) ==
    IF S = {} THEN <<>>
    ELSE LET m == CHOOSE x \in S : \A y \in S \ {x} : StrLess(y, x)
         IN  <<m>> \o SortedDescending(S \ {m})

\* line 133: sorted(list(self.subdomains)), strings compared by code point
RECURSIVE Sorted(_)
Sorted(S) ==
    IF S = {} THEN <<>>
    ELSE LET m == CHOOSE x \in S : \A y \in S \ {x} : StrLess(x, y)
         IN  <<m>> \o Sorted(S \ {m})

-----------------------------------------------------------------------------
(* The inputs of the model *)

EXAMPLE == <<"e","x","a","m","p","l","e">>
COM     == <<"c","o","m">>
WWW     == <<"w","w","w">>
MAIL    == <<"m","a","i","l">>
DOT     == <<".">>
NL      == <<"\n">>

\* the domain of the scan: "example.com", which main's cleaning accepts
TargetDomain == EXAMPLE \o DOT \o COM

\* args.domain values: an optional scheme, a host, an optional path or port
RawSchemes == { <<>>, <<"h","t","t","p",":","/","/">>,
                <<"h","t","t","p","s",":","/","/">> }
RawHosts ==
    { EXAMPLE \o DOT \o COM,
      <<"E","X","A","M","P","L","E">> \o DOT \o COM,
      <<"a",".","b",".">> \o EXAMPLE \o <<".","c","o",".","u","k">>,
      <<"n","o","t"," ","a"," ","d","o","m","a","i","n">>,
      <<" ">> \o EXAMPLE \o DOT \o COM \o <<" ">>,
      <<"-">> \o EXAMPLE \o DOT \o COM,
      EXAMPLE \o <<".",".">> \o COM,
      EXAMPLE \o <<".","c">>,
      <<"e","x","-","1",".","i","o">>,
      <<>> }
RawPaths == { <<>>, <<"/","p","a","t","h">>, <<"?","q">>, <<":","8","0">> }

RawDomains == { s \o h \o p : s \in RawSchemes, h \in RawHosts, p \in RawPaths }

\* "http://EXAMPLE.com/path"
RawHttpExamplePath ==
    <<"h","t","t","p",":","/","/">> \o <<"E","X","A","M","P","L","E">>
        \o DOT \o COM \o <<"/","p","a","t","h">>

-----------------------------------------------------------------------------
(* State shared by the two specifications *)

NoStatistics == [k \in {} |-> 0]
NoResults == [returned |-> FALSE, domain |-> <<>>, subdomains |-> <<>>,
              statistics |-> NoStatistics]
NoOpts == [no_ct |-> FALSE, no_web |-> FALSE, no_zone |-> FALSE,
           no_brute |-> FALSE, wordlist |-> None]
NoResponse == [status_code |-> 0, text |-> <<>>]
\* what is observed of the zone_transfer call in progress: the NameSet when it
\* began, the nameservers of the NS answer, the ones a transfer was attempted
\* from, and whether a transfer succeeded
NoZoneObs == [pre |-> {}, answer |-> <<>>, tried |-> <<>>, ok |-> FALSE]
\* netOps: the phases that sent an HTTP request or a DNS query; queried: the
\* passive sources that were sent a request; failedSources: the passive
\* sources that failed, until web_search is over; returnedNames: the names in
\* the sets the phases returned
NoHist == [phaseLog |-> <<>>, preBrute |-> {}, resolved |-> {},
           resolveCount |-> <<>>, interrupts |-> 0, interruptedAt |-> None,
           startedAfterInterrupt |-> {}, wordlistError |-> None,
           netOps |-> {}, queried |-> {}, failedSources |-> {},
           zone |-> NoZoneObs, returnedNames |-> {}]

\* SubdomainHunter.__init__ (self.subdomains = set()) and the locals of a
\* scan that has not started
ScanIdle ==
    /\ subdomains = {}
    /\ statistics = NoStatistics
    /\ results = NoResults
    /\ found = {}
    /\ ctData = <<>>
    /\ ctPos = 0
    /\ response = NoResponse
    /\ webLeft = <<>>
    /\ nsLeft = <<>>
    /\ words = <<>>
    /\ futures = <<>>
    /\ checked = 0
    /\ exc = None
    /\ exported = FALSE
    /\ exitStatus = -1
    /\ hist = NoHist

scanVars == <<subdomains, statistics, results, found, ctData, ctPos, response,
              webLeft, nsLeft,
              words, futures, checked, exc, exported, hist>>

-----------------------------------------------------------------------------
(* main(), lines 392-399, applied to every raw domain *)

InitClean ==
    /\ pc = "clean"
    /\ argDomain \in RawDomains
    /\ domain = <<>>
    /\ opts = NoOpts
    /\ ScanIdle

\* lines 393-394
Clean ==
    /\ pc = "clean"
    /\ domain' = CleanDomain(argDomain)
    /\ pc' = "validate"
    /\ UNCHANGED <<argDomain, opts, exitStatus>>
    /\ UNCHANGED scanVars

\* lines 397-399: an invalid domain prints the error and exits with status 1
Validate ==
    /\ pc = "validate"
    /\ IF DomainRegexMatches(domain)
       THEN pc' = "validated" /\ exitStatus' = exitStatus
       ELSE pc' = "exited" /\ exitStatus' = 1
    /\ UNCHANGED <<argDomain, domain, opts>>
    /\ UNCHANGED scanVars

NextClean == Clean \/ Validate

SpecClean == InitClean /\ [][NextClean]_vars

-----------------------------------------------------------------------------
(* The inputs of a scan *)

Threads == 2          \* self.threads, max_workers of the pool
MaxCtRecords == 2     \* records in a crt.sh response
MaxNs == 2            \* nameservers in the NS answer
MaxLines == 2         \* lines of a generated wordlist file
MaxInterrupts == 1    \* Ctrl-C presses during one scan

SeqsUpTo(S, n) == UNION {[1..k -> S] : k \in 0..n}

\* crt.sh records: name_value holds newline-separated names; `valid` is FALSE
\* for a record whose name_value is null (entry.get returns None, and
\* None.split raises AttributeError)
CtRecords ==
    { [valid |-> TRUE,
       name_value |-> <<"*",".">> \o TargetDomain \o NL
                        \o WWW \o DOT \o TargetDomain],
      [valid |-> TRUE,
       name_value |-> <<" ","W","W","W",".">> \o TargetDomain \o <<" ">>],
      [valid |-> TRUE,
       name_value |-> <<"n","o","t">> \o TargetDomain],
      [valid |-> FALSE, name_value |-> <<>>] }

CtResponses == SeqsUpTo(CtRecords, MaxCtRecords)

\* what requests.get / response.json() can do
HttpOutcomes == {"200", "500", "ConnectionError", "Timeout"}

\* bodies of the web sources: one host per line, "host,ip" (HackerTarget)
WebBodies ==
    { WWW \o DOT \o TargetDomain,
      <<"a",".","b",".">> \o TargetDomain \o <<",","1",".","2">> \o NL
          \o MAIL \o DOT \o TargetDomain \o NL,
      <<"e","r","r","o","r"," ","n","o"," ","r","e","c","o","r","d","s">> }

WebSources == <<"HackerTarget", "BufferOver">>

\* zone.nodes.keys() of a transferred zone, as str(name) renders them:
\* "@" is the apex, "*" a wildcard node
ZoneNodeLists ==
    { << <<"@">>, WWW >>,
      << <<"*">>, <<"M","A","I","L">> >> }

Nameservers == {"ns1", "ns2"}
NsAnswers == UNION {[1..k -> Nameservers] : k \in 1..MaxNs}
XfrOutcomes == {"ok", "ConnectionRefused", "TransferError", "Timeout", "FormError"}

\* lines of a wordlist file, each with its line end
WordLines ==
    { WWW \o NL,
      NL,
      <<"#"," ","c">> \o NL,
      <<" ","#","x">> \o NL }

\* the spec's 3-entry wordlist, and every file of up to MaxLines lines
WordlistFiles ==
    SeqsUpTo(WordLines, MaxLines)
        \cup { << WWW \o NL, MAIL \o NL, <<"a","p","i">> \o NL >> }

OpenOutcomes == {"ok", "FileNotFoundError", "PermissionError", "IsADirectoryError"}
ResolveOutcomes == {"answer", "NXDOMAIN", "Timeout", "NoNameservers"}

-----------------------------------------------------------------------------
(* One scan: main() from line 401 on, for the validated TargetDomain *)

\* -w: not given, the empty string, or a path
WordlistArgs == {None, "", "custom.txt"}

Init ==
    /\ pc = "main_wordlist"
    /\ argDomain = TargetDomain
    /\ domain = TargetDomain
    /\ opts \in [no_ct : BOOLEAN, no_web : BOOLEAN, no_zone : BOOLEAN,
                 no_brute : BOOLEAN, wordlist : WordlistArgs]
    /\ ScanIdle

envVars == <<argDomain, domain, exitStatus, exported, results>>
ctVars == <<ctData, ctPos>>
webVars == <<response, webLeft>>
bruteVars == <<words, futures, checked>>

\* results['statistics'][key] = len(phase_found)
SetStat(stats, key, n) == (key :> n) @@ stats

\* a test that takes the empty string for a path
TruthyNotNone(path) == path # None

\* lines 122 and 403: the truth value of wordlist_path, a str or None
Truthy(path) == path \notin {None, ""}

LogPhase(h, phase) ==
    [h EXCEPT !.phaseLog = Append(@, phase),
              !.startedAfterInterrupt =
                  IF h.interrupts > 0 THEN @ \cup {phase} ELSE @]

\* lines 401-408: without -w the default wordlist is used, and brute force is
\* switched off when that file does not exist
MainWordlist ==
    /\ pc = "main_wordlist"
    /\ \E exists \in BOOLEAN :
          opts' = IF ~opts.no_brute /\ ~Truthy(opts.wordlist)
                  THEN [opts EXCEPT !.wordlist = "wordlists/common.txt",
                                    !.no_brute = ~exists]
                  ELSE opts
    /\ pc' = "ct_if"
    /\ UNCHANGED <<envVars, subdomains, statistics, found, ctVars, webVars,
                   nsLeft, bruteVars, exc, hist>>

(* ---- Phase 1, search_ct_logs (lines 94-100 and 139-163) ---- *)

\* line 95: if enable_ct
CtStart ==
    /\ pc = "ct_if"
    /\ IF ~opts.no_ct
       THEN /\ pc' = "ct_get"
            /\ found' = {}
            /\ hist' = LogPhase(hist, "ct_logs")
       ELSE /\ pc' = "web_if"
            /\ UNCHANGED <<found, hist>>
    /\ UNCHANGED <<envVars, opts, subdomains, statistics, ctVars, webVars,
                   nsLeft, bruteVars, exc>>

\* lines 145-149: the request and response.json(); a failure of either, and
\* a status other than 200, end the phase with what was found (nothing)
CtGet ==
    /\ pc = "ct_get"
    /\ \E outcome \in HttpOutcomes \cup {"JSONDecodeError"} :
          /\ IF outcome = "200"
             THEN \E data \in CtResponses :
                     /\ ctData' = data
                     /\ ctPos' = 1
                     /\ pc' = "ct_loop"
             ELSE /\ pc' = "ct_ret"
                  /\ UNCHANGED ctVars
          /\ hist' = [hist EXCEPT
                         !.netOps = @ \cup {"ct_logs"},
                         !.queried = @ \cup {"crt.sh"},
                         !.failedSources = IF outcome = "200" THEN @
                                           ELSE @ \cup {"crt.sh"}]
    /\ UNCHANGED <<envVars, opts, subdomains, statistics, found, webVars,
                   nsLeft, bruteVars, exc>>

\* the filter without its wildcard test
CtAcceptsKeepsWildcards(subdomain, dom) == EndsWith(subdomain, dom)

\* line 154: the filter of search_ct_logs
CtAccepts(subdomain, dom) == EndsWith(subdomain, dom) /\ ~HasChar(subdomain, "*")

\* lines 152-153: the names of one record, stripped and lowercased
CtNames(name_value) ==
    LET parts == Split(name_value, "\n")
    IN  {Lower(Strip(parts[i])) : i \in 1..Len(parts)}

\* the loop without line 157: a name goes to found only
CtEntryKeepsFoundOnly ==
    /\ pc = "ct_loop"
    /\ ctPos <= Len(ctData)
    /\ LET entry == ctData[ctPos]
           new == {n \in CtNames(entry.name_value) :
                      CtAccepts(n, domain) /\ n \notin subdomains}
       IN  IF entry.valid
           THEN /\ found' = found \cup new
                /\ ctPos' = ctPos + 1
                /\ pc' = pc
                /\ UNCHANGED <<subdomains, hist>>
           ELSE /\ pc' = "ct_ret"
                /\ hist' = [hist EXCEPT !.failedSources = @ \cup {"crt.sh"}]
                /\ UNCHANGED <<found, subdomains, ctPos>>
    /\ UNCHANGED <<envVars, opts, statistics, ctData, webVars, nsLeft,
                   bruteVars, exc>>

\* lines 150-159, one record of data: the names that pass the filter and are
\* not in self.subdomains go to found and to self.subdomains; a record whose
\* name_value is not a string raises, which line 160 catches
CtEntry ==
    /\ pc = "ct_loop"
    /\ ctPos <= Len(ctData)
    /\ LET entry == ctData[ctPos]
           new == {n \in CtNames(entry.name_value) :
                      CtAccepts(n, domain) /\ n \notin subdomains}
       IN  IF entry.valid
           THEN /\ found' = found \cup new
                /\ subdomains' = subdomains \cup new
                /\ ctPos' = ctPos + 1
                /\ pc' = pc
                /\ UNCHANGED hist
           ELSE /\ pc' = "ct_ret"
                /\ hist' = [hist EXCEPT !.failedSources = @ \cup {"crt.sh"}]
                /\ UNCHANGED <<found, subdomains, ctPos>>
    /\ UNCHANGED <<envVars, opts, statistics, ctData, webVars, nsLeft,
                   bruteVars, exc>>

\* line 163 and line 98: return found; statistics['ct_logs'] = len(ct_subs)
CtReturn ==
    /\ pc = "ct_ret" \/ (pc = "ct_loop" /\ ctPos > Len(ctData))
    /\ statistics' = SetStat(statistics, "ct_logs", Cardinality(found))
    /\ found' = {}
    /\ ctData' = <<>>
    /\ ctPos' = 0
    /\ hist' = [hist EXCEPT !.returnedNames = @ \cup found]
    /\ pc' = "web_if"
    /\ UNCHANGED <<envVars, opts, subdomains, webVars, nsLeft, bruteVars,
                   exc>>

(* ---- Phase 2, web_search (lines 102-108 and 219-253) ---- *)

\* line 103: if enable_web
WebStart ==
    /\ pc = "web_if"
    /\ IF ~opts.no_web
       THEN /\ pc' = "web_get"
            /\ found' = {}
            /\ webLeft' = WebSources
            /\ hist' = LogPhase(hist, "web_search")
       ELSE /\ pc' = "zone_if"
            /\ hist' = [hist EXCEPT !.failedSources = {}]
            /\ UNCHANGED <<found, webLeft>>
    /\ UNCHANGED <<envVars, opts, subdomains, statistics, ctVars, response,
                   nsLeft, bruteVars, exc>>

\* lines 228-231: the request to the next source; an exception (line 249)
\* and a status other than 200 go on to the next source
WebGet ==
    /\ pc = "web_get"
    /\ webLeft # <<>>
    /\ \E outcome \in HttpOutcomes :
          /\ IF outcome = "200"
             THEN \E body \in WebBodies :
                     /\ response' = [status_code |-> 200, text |-> body]
                     /\ pc' = "web_extract"
                     /\ webLeft' = webLeft
             ELSE /\ response' = NoResponse
                  /\ webLeft' = Tail(webLeft)
                  /\ pc' = pc
          /\ hist' = [hist EXCEPT
                         !.netOps = @ \cup {"web_search"},
                         !.queried = @ \cup {Head(webLeft)},
                         !.failedSources = IF outcome = "200" THEN @
                                           ELSE @ \cup {Head(webLeft)}]
    /\ UNCHANGED <<envVars, opts, subdomains, statistics, found, ctVars,
                   nsLeft, bruteVars, exc>>

\* line 238: subdomain = match.lower().rstrip('.')
WebName(match) == RStripSet(Lower(match), {"."})

\* lines 233-244: every match of findall that, lowercased and without its
\* trailing dots, ends with the domain and is not in self.subdomains is added
WebExtract ==
    /\ pc = "web_extract"
    /\ LET matches == FindAll(response.text, domain)
           new == {n \in {WebName(matches[i]) : i \in 1..Len(matches)} :
                      EndsWith(n, domain) /\ n \notin subdomains}
       IN  /\ found' = found \cup new
           /\ subdomains' = subdomains \cup new
    /\ webLeft' = Tail(webLeft)
    /\ pc' = "web_get"
    /\ UNCHANGED <<envVars, opts, statistics, ctVars, response, nsLeft,
                   bruteVars, exc, hist>>

\* line 253 and line 106: return found; statistics['web_search'] = len(web_subs)
WebReturn ==
    /\ pc = "web_get"
    /\ webLeft = <<>>
    /\ statistics' = SetStat(statistics, "web_search", Cardinality(found))
    /\ found' = {}
    /\ response' = NoResponse
    /\ hist' = [hist EXCEPT !.returnedNames = @ \cup found,
                            !.failedSources = {}]
    /\ pc' = "zone_if"
    /\ UNCHANGED <<envVars, opts, subdomains, ctVars, webLeft, nsLeft,
                   bruteVars, exc>>

(* ---- Phase 3, zone_transfer (lines 110-119 and 255-282) ---- *)

\* line 111: if enable_zone
ZoneStart ==
    /\ pc = "zone_if"
    /\ IF ~opts.no_zone
       THEN /\ pc' = "zone_ns"
            /\ found' = {}
            /\ hist' = [LogPhase(hist, "zone_transfer")
                           EXCEPT !.zone.pre = subdomains]
       ELSE /\ pc' = "brute_if"
            /\ UNCHANGED <<found, hist>>
    /\ UNCHANGED <<envVars, opts, subdomains, statistics, ctVars, webVars,
                   nsLeft, bruteVars, exc>>

\* line 263: the NS lookup; any exception reaches line 279 and the phase
\* returns what it found (nothing)
ZoneResolveNs ==
    /\ pc = "zone_ns"
    /\ \E outcome \in {"answer", "NXDOMAIN", "Timeout"} :
          IF outcome = "answer"
          THEN \E ns_records \in NsAnswers :
                  /\ nsLeft' = ns_records
                  /\ pc' = "zone_loop"
          ELSE /\ nsLeft' = <<>>
               /\ pc' = "zone_ret"
    /\ hist' = [hist EXCEPT !.netOps = @ \cup {"zone_transfer"},
                            !.zone.answer = nsLeft']
    /\ UNCHANGED <<envVars, opts, subdomains, statistics, found, ctVars,
                   webVars, bruteVars, exc>>

\* line 272: subdomain = f"{name}.{self.domain}".lower()
ZoneName(name, dom) == Lower(name \o DOT \o dom)

\* a handler that leaves the loop at the first failure
NsAfterStopsAtFailure(ns, outcome) == IF outcome = "ok" THEN Tail(ns) ELSE <<>>

\* lines 265 and 277-278: the loop goes on with the next nameserver, after a
\* transfer and after `except: continue`
NsAfter(ns, outcome) == Tail(ns)

\* lines 265-278, one nameserver: a transfer that fails in any way goes on to
\* the next nameserver; the nodes of a transferred zone are all added to
\* found and to self.subdomains
ZoneXfr ==
    /\ pc = "zone_loop"
    /\ nsLeft # <<>>
    /\ \E outcome \in XfrOutcomes :
          /\ IF outcome = "ok"
             THEN \E nodes \in ZoneNodeLists :
                     LET names == {ZoneName(nodes[i], domain) :
                                      i \in 1..Len(nodes)}
                     IN  /\ found' = found \cup names
                         /\ subdomains' = subdomains \cup names
             ELSE UNCHANGED <<found, subdomains>>
          /\ nsLeft' = NsAfter(nsLeft, outcome)
          /\ hist' = [hist EXCEPT !.zone.tried = Append(@, Head(nsLeft)),
                                  !.zone.ok = @ \/ outcome = "ok"]
    /\ pc' = pc
    /\ UNCHANGED <<envVars, opts, statistics, ctVars, webVars, bruteVars,
                   exc>>

\* line 282 and line 114: return found; statistics['zone_transfer'] = len(zt_subs)
ZoneReturn ==
    /\ pc = "zone_ret" \/ (pc = "zone_loop" /\ nsLeft = <<>>)
    /\ statistics' = SetStat(statistics, "zone_transfer", Cardinality(found))
    /\ found' = {}
    /\ nsLeft' = <<>>
    /\ hist' = [hist EXCEPT !.returnedNames = @ \cup found,
                            !.zone = NoZoneObs]
    /\ pc' = "brute_if"
    /\ UNCHANGED <<envVars, opts, subdomains, ctVars, webVars, bruteVars,
                   exc>>

(* ---- Phase 4, dns_bruteforce (lines 121-127 and 165-217) ---- *)

\* line 122: if enable_brute and wordlist_path
BruteStart ==
    /\ pc = "brute_if"
    /\ IF ~opts.no_brute /\ Truthy(opts.wordlist)
       THEN /\ pc' = "brute_load"
            /\ found' = {}
            /\ hist' = [LogPhase(hist, "brute_force")
                           EXCEPT !.preBrute = subdomains]
       ELSE /\ pc' = "assemble"
            /\ UNCHANGED <<found, hist>>
    /\ UNCHANGED <<envVars, opts, subdomains, statistics, ctVars, webVars,
                   nsLeft, bruteVars, exc>>

\* line 171: the lines that are not blank and do not start with '#', stripped
RECURSIVE LoadWords(_)
LoadWords(lines) ==
    IF lines = <<>> THEN <<>>
    ELSE LET line == Head(lines)
         IN  (IF Strip(line) # <<>> /\ ~StartsWith(line, <<"#">>)
              THEN <<Strip(line)>> ELSE <<>>) \o LoadWords(Tail(lines))

\* lines 169-176: FileNotFoundError returns the empty found (line 174, then
\* line 125); any other error of open() or of reading is not caught in
\* dns_bruteforce nor in run_all, and reaches main's `except Exception`
BruteLoad ==
    /\ pc = "brute_load"
    /\ \E outcome \in OpenOutcomes :
          /\ hist' = [hist EXCEPT !.wordlistError = outcome]
          /\ CASE outcome = "ok" ->
                    \E lines \in WordlistFiles :
                       /\ words' = LoadWords(lines)
                       /\ pc' = "brute_submit"
                       /\ UNCHANGED <<statistics, exc, exitStatus>>
               [] outcome = "FileNotFoundError" ->
                    /\ statistics' = SetStat(statistics, "brute_force",
                                             Cardinality(found))
                    /\ pc' = "assemble"
                    /\ UNCHANGED <<words, exc, exitStatus>>
               [] OTHER ->
                    /\ exc' = outcome
                    /\ exitStatus' = 1
                    /\ pc' = "exited"
                    /\ UNCHANGED <<words, statistics>>
    /\ UNCHANGED <<argDomain, domain, exported, results, opts, subdomains,
                   found, ctVars, webVars, nsLeft, futures, checked>>

NewFuture == [state |-> "pending", result |-> <<>>, yielded |-> FALSE]

\* lines 188-189: one future per word, in wordlist order
BruteSubmit ==
    /\ pc = "brute_submit"
    /\ futures' = [i \in 1..Len(words) |-> NewFuture]
    /\ checked' = 0
    /\ hist' = [hist EXCEPT !.resolveCount = [i \in 1..Len(words) |-> 0]]
    /\ pc' = "brute_wait"
    /\ UNCHANGED <<envVars, opts, subdomains, statistics, found, ctVars,
                   webVars, nsLeft, words, exc>>

Running(fs) == {i \in 1..Len(fs) : fs[i].state = "running"}
Pending(fs) == {i \in 1..Len(fs) : fs[i].state = "pending"}

\* the pool's queue is first in, first out: a free worker takes the oldest
\* pending work item, and at most max_workers items run at a time
WorkerMayTake(fs, i) ==
    /\ i \in Pending(fs)
    /\ \A j \in Pending(fs) : i <= j
    /\ Cardinality(Running(fs)) < Threads

WorkerStart(i) ==
    /\ pc \in {"brute_wait", "brute_shutdown"}
    /\ WorkerMayTake(futures, i)
    /\ futures' = [futures EXCEPT ![i].state = "running"]
    /\ UNCHANGED <<pc, envVars, opts, subdomains, statistics, found, ctVars,
                   webVars, nsLeft, words, checked, exc, hist>>

\* an except branch that returns True
ResolveDnsTrueOnError(outcome) == TRUE

\* lines 211-217: resolve_dns is True when the resolver answers, and False
\* on every exception
ResolveDns(outcome) == outcome = "answer"

\* a check that returns the word and not the candidate name
CheckSubdomainReturnsWord(word, dom, outcome) ==
    IF ResolveDns(outcome) THEN word ELSE <<>>

\* lines 178-182: check_subdomain returns the candidate or None
CheckSubdomain(word, dom, outcome) ==
    IF ResolveDns(outcome) THEN word \o DOT \o dom ELSE <<>>

WorkerFinish(i) ==
    /\ pc \in {"brute_wait", "brute_shutdown"}
    /\ i \in Running(futures)
    /\ \E outcome \in ResolveOutcomes :
          LET r == CheckSubdomain(words[i], domain, outcome)
          IN  /\ futures' = [futures EXCEPT ![i].state = "done", ![i].result = r]
              /\ hist' = [hist EXCEPT
                             !.resolveCount[i] = @ + 1,
                             !.netOps = @ \cup {"brute_force"},
                             !.resolved = IF outcome = "answer"
                                          THEN @ \cup {words[i] \o DOT \o domain}
                                          ELSE @]
    /\ UNCHANGED <<pc, envVars, opts, subdomains, statistics, found, ctVars,
                   webVars, nsLeft, words, checked, exc>>

\* lines 191-198: as_completed yields a finished future once; a result that
\* is not None is added to found and to self.subdomains
BruteCollect(i) ==
    /\ pc = "brute_wait"
    /\ i \in 1..Len(futures)
    /\ futures[i].state = "done"
    /\ ~futures[i].yielded
    /\ LET result == futures[i].result
       IN  IF result # <<>>
           THEN /\ found' = found \cup {result}
                /\ subdomains' = subdomains \cup {result}
           ELSE UNCHANGED <<found, subdomains>>
    /\ checked' = checked + 1
    /\ futures' = [futures EXCEPT ![i].yielded = TRUE]
    /\ UNCHANGED <<pc, envVars, opts, statistics, ctVars, webVars, nsLeft,
                   words, exc, hist>>

\* a loop that stops at the first completed future
AllYieldedStopsAtFirst(fs) == \E i \in 1..Len(fs) : fs[i].yielded

\* as_completed is exhausted when every future was yielded
AllYielded(fs) == \A i \in 1..Len(fs) : fs[i].yielded

\* shutdown(wait=False): the with block ends at once
ExecutorDrainedNoWait(fs) == TRUE

\* the `with` block ends in executor.shutdown(wait=True), which returns
\* when the workers have run every submitted work item
ExecutorDrained(fs) == \A i \in 1..Len(fs) : fs[i].state = "done"

\* lines 207-209 and line 125: the loop and the with block end, return found;
\* statistics['brute_force'] = len(brute_subs)
BruteReturn ==
    /\ pc = "brute_wait"
    /\ AllYielded(futures)
    /\ ExecutorDrained(futures)
    /\ statistics' = SetStat(statistics, "brute_force", Cardinality(found))
    /\ found' = {}
    /\ hist' = [hist EXCEPT !.returnedNames = @ \cup found]
    /\ pc' = "assemble"
    /\ UNCHANGED <<envVars, opts, subdomains, ctVars, webVars, nsLeft,
                   bruteVars, exc>>

\* a KeyboardInterrupt raised inside the with block leaves it through
\* shutdown(wait=True): it reaches main (line 446) when the pool is drained
BruteShutdown ==
    /\ pc = "brute_shutdown"
    /\ ExecutorDrained(futures)
    /\ pc' = "exited"
    /\ exitStatus' = 1
    /\ UNCHANGED <<argDomain, domain, exported, results, opts, subdomains,
                   statistics, found, ctVars, webVars, nsLeft, bruteVars,
                   exc, hist>>

(* ---- The end of run_all and of main ---- *)

\* lines 132-137: the sorted names and statistics['total_unique']
Assemble ==
    /\ pc = "assemble"
    /\ LET all_subs == Sorted(subdomains)
           stats == SetStat(statistics, "total_unique", Len(all_subs))
       IN  /\ statistics' = stats
           /\ results' = [returned |-> TRUE, domain |-> domain,
                          subdomains |-> all_subs, statistics |-> stats]
    /\ pc' = "summary"
    /\ UNCHANGED <<argDomain, domain, exitStatus, exported, opts, subdomains,
                   found, ctVars, webVars, nsLeft, bruteVars, exc, hist>>

\* lines 428-438: print_summary and the list of names
Summary ==
    /\ pc = "summary"
    /\ pc' = "export"
    /\ UNCHANGED <<envVars, opts, subdomains, statistics, found, ctVars,
                   webVars, nsLeft, bruteVars, exc, hist>>

\* lines 441-444 and 449-451: export_results writes the file; an error of
\* the write reaches `except Exception` and the exit status is 1
Export ==
    /\ pc = "export"
    /\ exported' = TRUE
    /\ \E outcome \in {"ok", "OSError"} :
          IF outcome = "ok"
          THEN exitStatus' = 0 /\ exc' = exc
          ELSE exitStatus' = 1 /\ exc' = outcome
    /\ pc' = "exited"
    /\ UNCHANGED <<argDomain, domain, results, opts, subdomains, statistics,
                   found, ctVars, webVars, nsLeft, bruteVars, hist>>

(* ---- Ctrl-C ---- *)

\* the positions of the main thread inside main's try block (lines 418-445)
InTry ==
    {"ct_if", "ct_get", "ct_loop", "ct_ret", "web_if", "web_get",
     "web_extract", "zone_if", "zone_ns", "zone_loop", "zone_ret",
     "brute_if", "brute_load", "brute_submit", "brute_wait",
     "brute_shutdown", "assemble", "summary", "export"}

\* where a KeyboardInterrupt raised at position p takes the main thread:
\* `except Exception` (lines 160, 249) does not catch it; the bare `except:`
\* of zone_transfer does: line 277 goes on with the next nameserver, line 279
\* ends the phase; inside the with block of dns_bruteforce the pool is shut
\* down first; everywhere else it reaches line 446
InterruptTarget(p, ns) ==
    CASE p = "zone_ns" -> "zone_ret"
      [] p = "zone_loop" -> IF ns # <<>> THEN "zone_loop" ELSE "zone_ret"
      [] p \in {"brute_wait", "brute_shutdown"} -> "brute_shutdown"
      [] OTHER -> "exited"

Interrupt ==
    /\ pc \in InTry
    /\ hist.interrupts < MaxInterrupts
    /\ LET target == InterruptTarget(pc, nsLeft)
       IN  /\ pc' = target
           /\ nsLeft' = IF pc = "zone_loop" /\ nsLeft # <<>>
                        THEN Tail(nsLeft) ELSE nsLeft
           /\ exc' = IF target \in {"exited", "brute_shutdown"}
                     THEN "KeyboardInterrupt" ELSE exc
           /\ exitStatus' = IF target = "exited" THEN 1 ELSE exitStatus
    /\ hist' = [hist EXCEPT !.interrupts = @ + 1,
                            !.interruptedAt = IF @ = None THEN pc ELSE @,
                            !.zone.tried = IF pc = "zone_loop" /\ nsLeft # <<>>
                                           THEN Append(@, Head(nsLeft))
                                           ELSE @]
    /\ UNCHANGED <<argDomain, domain, exported, results, opts, subdomains,
                   statistics, found, ctVars, webVars, bruteVars>>

\* the steps of run_all and of what main does with its result
NextRunAll ==
    \/ CtStart \/ CtGet \/ CtEntry \/ CtReturn
    \/ WebStart \/ WebGet \/ WebExtract \/ WebReturn
    \/ ZoneStart \/ ZoneResolveNs \/ ZoneXfr \/ ZoneReturn
    \/ BruteStart \/ BruteLoad \/ BruteSubmit
    \/ (\E i \in 1..Len(futures) : WorkerStart(i))
    \/ (\E i \in 1..Len(futures) : WorkerFinish(i))
    \/ (\E i \in 1..Len(futures) : BruteCollect(i))
    \/ BruteReturn \/ BruteShutdown
    \/ Assemble \/ Summary \/ Export
    \/ Interrupt

Next == MainWordlist \/ NextRunAll

Spec == Init /\ [][Next]_vars

(* run_all called with any of the arguments its signature takes (line 80):
   wordlist_path defaults to None and enable_brute to True *)

InitRunAll ==
    /\ pc = "ct_if"
    /\ argDomain = TargetDomain
    /\ domain = TargetDomain
    /\ opts \in [no_ct : BOOLEAN, no_web : BOOLEAN, no_zone : BOOLEAN,
                 no_brute : BOOLEAN, wordlist : WordlistArgs]
    /\ ScanIdle

SpecRunAll == InitRunAll /\ [][NextRunAll]_vars

-----------------------------------------------------------------------------
(* Properties of the specification, by claim *)

Stat(stats, key) == IF key \in DOMAIN stats THEN stats[key] ELSE 0

WwwName == WWW \o DOT \o TargetDomain

\* C1: the brute_force statistic equals the number of distinct candidates
\* that resolved and were not in the NameSet when the brute-force phase began.
C1_BruteCountsOnlyNewNames ==
    "brute_force" \in DOMAIN statistics =>
        statistics["brute_force"] =
            Cardinality(hist.resolved \ hist.preBrute)

\* C2: every name is counted under exactly one phase, so in every result
\* ct_logs + web_search + zone_transfer + brute_force = total_unique.
C2_PhaseCountsSumToTotal ==
    results.returned =>
        Stat(results.statistics, "ct_logs")
          + Stat(results.statistics, "web_search")
          + Stat(results.statistics, "zone_transfer")
          + Stat(results.statistics, "brute_force")
        = results.statistics["total_unique"]

\* C3: cleaning strips the scheme and the path of the raw input and keeps the
\* lowercased, trimmed host, which is what is validated:
\* "http://EXAMPLE.com/path" becomes "example.com" and is accepted,
\* "a.b.example.co.uk" is accepted, "not a domain" is rejected.
C3_CleaningKeepsTheHost ==
    /\ pc # "clean" =>
          \A s \in RawSchemes, h \in RawHosts :
             \A p \in {<<>>, <<"/","p","a","t","h">>} :
                argDomain = s \o h \o p /\ h # <<>> => domain = Strip(Lower(h))
    /\ pc \in {"validated", "exited"} /\ argDomain = RawHttpExamplePath
          => domain = TargetDomain /\ pc = "validated"
    /\ pc \in {"validated", "exited"}
          /\ argDomain = <<"a",".","b",".">> \o EXAMPLE \o <<".","c","o",".","u","k">>
          => pc = "validated"
    /\ pc \in {"validated", "exited"}
          /\ argDomain = <<"n","o","t"," ","a"," ","d","o","m","a","i","n">>
          => pc = "exited" /\ exitStatus = 1

\* s is one DNS label segment: an alphanumeric, then alphanumerics or hyphens
IsLabelSegment(s) ==
    /\ s # <<>>
    /\ IsAlnum(s[1])
    /\ \A i \in 1..Len(s) : IsAlnum(s[i]) \/ s[i] = "-"

\* s is one or more label segments, each followed by a dot, then dom
IsLabelsThenDomain(s, dom) ==
    /\ Len(s) > Len(dom) + 1
    /\ EndsWith(s, DOT \o dom)
    /\ LET labels == Split(SubSeq(s, 1, Len(s) - Len(dom) - 1), ".")
       IN  \A i \in 1..Len(labels) : IsLabelSegment(labels[i])

\* the whole text of each match of web_search's pattern in body from
\* position i on, leftmost first and without overlap
RECURSIVE WholeMatchesFrom(_, _, _)
WholeMatchesFrom(body, i, dom) ==
    IF i > Len(body) THEN {}
    ELSE LET m == MatchAt(body, i, dom)
         IN  IF m.ok THEN {m.whole} \cup WholeMatchesFrom(body, m.end + 1, dom)
             ELSE WholeMatchesFrom(body, i + 1, dom)

\* the names a response body holds for dom: the matched substrings,
\* lowercased and without a trailing dot
NamesInBody(body, dom) ==
    {RStripSet(Lower(w), {"."}) : w \in WholeMatchesFrom(body, 1, dom)}

\* C4: after a source answered 200 and its body was handled, every substring
\* of the body made of label segments with their dots and then the Domain
\* (each match of the pattern), lowercased, is in the NameSet.
C4_WebNamesReachTheNameSet ==
    pc = "web_get" /\ response.status_code = 200 =>
        /\ \A n \in NamesInBody(response.text, domain) :
              IsLabelsThenDomain(n, domain)
        /\ NamesInBody(response.text, domain) \subseteq subdomains

\* C5: every element of the NameSet is lowercase, ends with "." + Domain,
\* holds no '*' and has no trailing dot.
C5_NameSetWellFormed ==
    \A n \in subdomains :
       /\ Lower(n) = n
       /\ EndsWith(n, DOT \o domain)
       /\ ~HasChar(n, "*")
       /\ n[Len(n)] # "."

PhaseOrder == <<"ct_logs", "web_search", "zone_transfer", "brute_force">>
PhaseIndex(ph) == CHOOSE i \in 1..Len(PhaseOrder) : PhaseOrder[i] = ph
PhaseOfPc ==
    [ct_get |-> "ct_logs", ct_loop |-> "ct_logs", ct_ret |-> "ct_logs",
     web_get |-> "web_search", web_extract |-> "web_search",
     zone_ns |-> "zone_transfer", zone_loop |-> "zone_transfer",
     zone_ret |-> "zone_transfer",
     brute_load |-> "brute_force", brute_submit |-> "brute_force",
     brute_wait |-> "brute_force", brute_shutdown |-> "brute_force"]

\* C6: the phases start in the order CT, web, zone transfer, brute force;
\* the main thread works on the phase started last; a brute-force worker is
\* pending or running only during the brute-force phase, so the result is
\* assembled, and the process exits, only after every worker has finished.
C6_PhasesStrictlySequential ==
    /\ \A i, j \in 1..Len(hist.phaseLog) :
          i < j => PhaseIndex(hist.phaseLog[i]) < PhaseIndex(hist.phaseLog[j])
    /\ pc \in DOMAIN PhaseOfPc =>
          /\ hist.phaseLog # <<>>
          /\ hist.phaseLog[Len(hist.phaseLog)] = PhaseOfPc[pc]
    /\ Running(futures) \cup Pending(futures) # {} =>
          pc \in {"brute_wait", "brute_shutdown"}
    /\ results.returned => \A i \in 1..Len(futures) : futures[i].state = "done"

\* all four phases ran, two workers ran side by side, and the result was built
C6_Witness ==
    /\ results.returned
    /\ hist.phaseLog = PhaseOrder
    /\ Len(futures) >= 2

\* C7: each of the K loaded entries is resolved exactly once, and the phase
\* returns only when all K were resolved and handled, whatever the outcomes.
C7_EveryEntryResolvedOnce ==
    /\ \A i \in 1..Len(hist.resolveCount) : hist.resolveCount[i] <= 1
    /\ pc \in {"brute_wait", "brute_shutdown"} =>
          Len(futures) = Len(words) /\ Len(hist.resolveCount) = Len(words)
    /\ "brute_force" \in DOMAIN statistics /\ hist.wordlistError = "ok" =>
          /\ Len(hist.resolveCount) = Len(words)
          /\ \A i \in 1..Len(words) : hist.resolveCount[i] = 1
          /\ checked = Len(words)

\* the 3-entry wordlist was processed: one entry resolved, another did not
C7_Witness ==
    /\ "brute_force" \in DOMAIN statistics
    /\ Len(words) = 3
    /\ checked = 3
    /\ futures[1].result = <<>>
    /\ futures[3].result # <<>>

\* C8: after a user interrupt during the scan no later phase is started,
\* export_results is not invoked, and the process ends with a non-zero status.
C8_InterruptEndsTheScan ==
    hist.interrupts > 0 =>
        /\ hist.startedAfterInterrupt = {}
        /\ ~exported
        /\ pc = "exited" => exitStatus = 1

\* C9: a wordlist that cannot be opened or read (missing, permission denied,
\* a directory) makes brute force contribute nothing and the scan completes:
\* no exception of the wordlist leaves run_all, and the result holds exactly
\* the names of the other phases.
C9_UnreadableWordlistIsTolerated ==
    hist.wordlistError \in {"FileNotFoundError", "PermissionError",
                            "IsADirectoryError"} =>
        /\ exc \notin {"FileNotFoundError", "PermissionError",
                       "IsADirectoryError"}
        /\ results.returned =>
              /\ Stat(results.statistics, "brute_force") = 0
              /\ results.subdomains = Sorted(hist.preBrute)

\* the names of the first n records: each name_value split on newlines,
\* each part trimmed and lowercased
RecordNames(data, n) ==
    UNION { LET parts == Split(data[k].name_value, "\n")
            IN  {Lower(Strip(parts[i])) : i \in 1..Len(parts)}
          : k \in 1..n }

CtWildcardRecord ==
    [valid |-> TRUE,
     name_value |-> <<"*",".">> \o TargetDomain \o NL \o WwwName]

\* C10: the set search_ct_logs has collected from the records it went
\* through is exactly their entries (split on newlines, trimmed, lowercased)
\* that end with the Domain and hold no '*' (the NameSet is empty when the
\* phase starts); the record "*.example.com\nwww.example.com" alone gives
\* www.example.com and not the wildcard entry.
C10_CtExtraction ==
    pc = "ct_loop" =>
        /\ found = {n \in RecordNames(ctData, ctPos - 1) :
                       EndsWith(n, domain) /\ ~HasChar(n, "*")}
        /\ found \subseteq subdomains
        /\ ctData = <<CtWildcardRecord>> /\ ctPos = 2 => found = {WwwName}

\* the loop went through a response that holds the wildcard record
C10_Witness ==
    /\ pc = "ct_loop"
    /\ ctPos > Len(ctData)
    /\ Len(ctData) = 2
    /\ ctData[1] = CtWildcardRecord
    /\ found = {WwwName}

\* C11: with the CT, web and zone-transfer phases disabled and a wordlist
\* that was read, a result has as many names as distinct candidates resolved
\* (m), and its statistics are exactly brute_force = m and total_unique = m,
\* with no entry for ct_logs, web_search or zone_transfer.
C11_BruteOnlyStatistics ==
    (/\ results.returned
     /\ opts.no_ct /\ opts.no_web /\ opts.no_zone
     /\ hist.wordlistError = "ok") =>
        LET m == Cardinality(hist.resolved)
        IN  /\ Len(results.subdomains) = m
            /\ DOMAIN results.statistics = {"brute_force", "total_unique"}
            /\ results.statistics["brute_force"] = m
            /\ results.statistics["total_unique"] = m

\* the 3-entry wordlist with exactly one candidate that resolves
C11_Witness ==
    /\ results.returned
    /\ opts.no_ct /\ opts.no_web /\ opts.no_zone
    /\ Len(words) = 3
    /\ Cardinality(hist.resolved) = 1
    /\ Len(results.subdomains) = 1

\* C12: zone_transfer raises nothing; a transfer is attempted from every
\* nameserver of the NS answer, also after one that failed; and when the NS
\* lookup fails or no transfer succeeds the phase has found nothing and the
\* NameSet is what it was when the phase began.
C12_ZoneTransferFailuresAreSwallowed ==
    /\ pc \in {"zone_ns", "zone_loop", "zone_ret"} => exc = None
    /\ pc = "zone_loop" => hist.zone.tried \o nsLeft = hist.zone.answer
    /\ pc = "zone_ret" \/ (pc = "zone_loop" /\ nsLeft = <<>>) =>
          /\ hist.zone.tried = hist.zone.answer
          /\ ~hist.zone.ok => found = {} /\ subdomains = hist.zone.pre

\* two nameservers answered the NS lookup, the transfer failed at both, and
\* the NameSet held names of an earlier phase
C12_Witness ==
    /\ pc = "zone_loop"
    /\ nsLeft = <<>>
    /\ Len(hist.zone.tried) = 2
    /\ ~hist.zone.ok
    /\ subdomains # {}
    /\ subdomains = hist.zone.pre

\* the phases that run_all was told not to run; brute force is also off
\* without a wordlist path
PhaseDisabled ==
    [ct_logs |-> opts.no_ct, web_search |-> opts.no_web,
     zone_transfer |-> opts.no_zone,
     brute_force |-> opts.no_brute \/ opts.wordlist \in {None, ""}]
PhaseIfPc ==
    [ct_logs |-> "ct_if", web_search |-> "web_if", zone_transfer |-> "zone_if",
     brute_force |-> "brute_if"]

\* C13: a disabled phase is never started, sends no HTTP request and no DNS
\* query and has no count in the statistics, and the step over its `if`
\* leaves the NameSet as it was; brute force is skipped in the same way when
\* it is enabled but the wordlist path is None or empty.
C13_DisabledPhasesAreSkipped ==
    /\ [](\A ph \in DOMAIN PhaseDisabled :
             PhaseDisabled[ph] =>
                /\ \A i \in 1..Len(hist.phaseLog) : hist.phaseLog[i] # ph
                /\ ph \notin hist.netOps
                /\ Stat(statistics, ph) = 0
                /\ Stat(results.statistics, ph) = 0)
    /\ [][\A ph \in DOMAIN PhaseDisabled :
             PhaseDisabled[ph] /\ pc = PhaseIfPc[ph] =>
                /\ subdomains' = subdomains
                /\ statistics' = statistics]_vars

\* run_all with the defaults of wordlist_path and enable_brute, and with
\* the web phase off, returned the names of the CT phase
C13_Witness ==
    /\ results.returned
    /\ ~opts.no_brute /\ opts.wordlist = None
    /\ opts.no_web /\ ~opts.no_ct
    /\ hist.phaseLog = <<"ct_logs", "zone_transfer">>
    /\ results.subdomains # <<>>

\* C14: whatever the order in which the workers run and finish, no insert
\* is lost and no name is counted twice: during the brute-force phase the
\* NameSet holds what it held before and every resolved name that was
\* handled, and after it the NameSet is its content before the phase together
\* with the candidates that resolved, each counted once.
C14_NoLostOrDuplicateInserts ==
    /\ pc \in {"brute_wait", "brute_shutdown"} =>
          /\ hist.preBrute \subseteq subdomains
          /\ subdomains \subseteq hist.preBrute \cup hist.resolved
          /\ found \subseteq hist.resolved
          /\ \A i \in 1..Len(futures) :
                futures[i].yielded /\ hist.resolveCount[i] = 1
                   /\ futures[i].result # <<>>
                => words[i] \o DOT \o domain \in found \cap subdomains
    /\ "brute_force" \in DOMAIN statistics /\ hist.wordlistError = "ok" =>
          /\ subdomains = hist.preBrute \cup hist.resolved
          /\ statistics["brute_force"] = Cardinality(hist.resolved)

\* two workers resolved the same candidate (the wordlist holds www twice)
\* after an earlier phase had put names in the NameSet
C14_Witness ==
    /\ "brute_force" \in DOMAIN statistics
    /\ Len(words) = 2
    /\ words[1] = words[2]
    /\ futures[1].result # <<>> /\ futures[2].result # <<>>
    /\ hist.preBrute # {}
    /\ ~(hist.resolved \subseteq hist.preBrute)

\* C15: once the brute-force phase was interrupted, no candidate whose
\* resolution had not started is started.
C15_InterruptStopsDispatch ==
    [][pc = "brute_shutdown" => Pending(futures') = Pending(futures)]_vars

\* C16: no request error of a passive source leaves its phase; web_search
\* has queried HackerTarget and BufferOver when it returns; and after a
\* passive source failed, the names in the body of a source that answers
\* 200 are in the NameSet once the body was handled.
C16_PassiveSourceFailuresAreIndependent ==
    /\ exc \notin HttpOutcomes \cup {"JSONDecodeError"}
    /\ "web_search" \in DOMAIN statistics =>
          {"HackerTarget", "BufferOver"} \subseteq hist.queried
    /\ pc = "web_get" /\ response.status_code = 200
          /\ hist.failedSources # {}
       => NamesInBody(response.text, domain) \subseteq subdomains

\* C17: the subdomains of a result are in strictly ascending order, they are
\* exactly the elements of the NameSet, and total_unique is their number.
C17_ResultIsTheSortedNameSet ==
    results.returned =>
        /\ \A i, j \in 1..Len(results.subdomains) :
              i < j => StrLess(results.subdomains[i], results.subdomains[j])
        /\ Range(results.subdomains) = subdomains
        /\ results.statistics["total_unique"] = Len(results.subdomains)

\* a result with names of the CT phase and of the zone transfer
C17_Witness ==
    /\ results.returned
    /\ Len(results.subdomains) >= 3
    /\ Stat(results.statistics, "ct_logs") > 0
    /\ Stat(results.statistics, "zone_transfer") > 0

\* C18: every entry handed to the workers is trimmed, is not empty and does
\* not begin with '#'.
C18_WordsAreTrimmedEntries ==
    \A i \in 1..Len(words) :
       /\ words[i] # <<>>
       /\ Strip(words[i]) = words[i]
       /\ words[i][1] # "#"

\* C19: the NameSet only grows; what a phase has found, and so the set it
\* returns, is inside the NameSet, also when the phase fails part-way; and a
\* result holds every name that a phase returned.
C19_NameSetOnlyGrows ==
    /\ [](/\ found \subseteq subdomains
          /\ hist.returnedNames \subseteq subdomains
          /\ results.returned =>
                hist.returnedNames \subseteq Range(results.subdomains))
    /\ [][subdomains \subseteq subdomains']_vars

\* the CT phase ends at a record it cannot read, after it had found names
C19_Witness ==
    /\ pc = "ct_ret"
    /\ "crt.sh" \in hist.failedSources
    /\ found # {}

====
